---------------------------- MODULE Spec2Model ----------------------------
(***************************************************************************)
(* A model of the response / event decoding layer of matrix-nio            *)
(* (nio/responses.py) and of its to-device message builders                *)
(* (nio/event_builders/direct_messages.py).                                *)
(*                                                                         *)
(* Every Python function is an operator that yields an outcome: either     *)
(* Return(v), the value handed back, or Raise(class, arg), the exception   *)
(* that leaves the function.  A JSON object is a function from the keys    *)
(* that are present to their values; the object under rooms.join, which    *)
(* the code iterates, is the sequence of its <<room_id, room>> items in    *)
(* document order.                                                         *)
(***************************************************************************)
EXTENDS Integers, Sequences, FiniteSets, TLC

VARIABLES fn, arg, ret, pc

vars == <<fn, arg, ret, pc>>

(* Longest raw event array of a timeline. *)
MaxEvents == 3

---------------------------------------------------------------------------
(* Python values and outcomes *)

None == "None"

NoneObject == [class |-> "NoneType"]

Return(v) == [raised |-> FALSE, value |-> v]

Raise(c, a) == [raised |-> TRUE, exc |-> [class |-> c, arg |-> a]]

Has(d, k) == k \in DOMAIN d

Restrict(d, K) == [k \in K \cap DOMAIN d |-> d[k]]

EmptyDict == [k \in {} |-> None]

(* d[k1], d[k2], ... evaluated left to right: the first key that is absent,
   or None when all are present. *)
RECURSIVE FirstMissing(_, _)
FirstMissing(d, keys) ==
    IF keys = <<>> THEN None
    ELSE IF ~Has(d, Head(keys)) THEN Head(keys)
    ELSE FirstMissing(d, Tail(keys))

---------------------------------------------------------------------------
(* nio.schemas: validate_json(d, Schemas.x) is Schemas_x(d), each schema
   given by the fields it requires.  TRUE is a payload that validates, FALSE
   one for which validate_json raises ValidationError. *)

Schemas_room_event(d) ==
    {"event_id", "sender", "origin_server_ts", "type", "content"} \subseteq DOMAIN d

Schemas_redacted_event(d) ==
    /\ Schemas_room_event(d)
    /\ Has(d, "unsigned")
    /\ Has(d["unsigned"], "redacted_because")
    /\ {"sender", "content"} \subseteq DOMAIN d["unsigned"]["redacted_because"]

Schemas_room_message(d) ==
    /\ Has(d, "content")
    /\ Has(d["content"], "msgtype")

Schemas_room_message_text(d) ==
    /\ Schemas_room_message(d)
    /\ Has(d["content"], "body")

Schemas_room_timeline(d) ==
    {"events", "limited", "prev_batch"} \subseteq DOMAIN d

Schemas_sync(d) ==
    {"next_batch", "rooms"} \subseteq DOMAIN d

Schemas_login(d) ==
    {"user_id", "device_id", "access_token"} \subseteq DOMAIN d

Schemas_error(d) ==
    {"error", "errcode"} \subseteq DOMAIN d

---------------------------------------------------------------------------
(* nio.api Api.to_json: the compact JSON text of an event, as the sequence
   of its <<key, value>> members in document order, an object-valued member
   serialized in turn.  from_json parses it back. *)

EventKeyOrder ==
    <<"event_id", "sender", "origin_server_ts", "type", "content", "unsigned">>

ContentKeyOrder == <<"msgtype", "body", "formatted_body", "format">>

UnsignedKeyOrder == <<"age", "redacted_because">>

BecauseKeyOrder == <<"sender", "content">>

ReasonKeyOrder == <<"reason">>

(* The keys of order that d holds, in that order. *)
RECURSIVE Present(_, _)
Present(d, order) ==
    IF order = <<>> THEN <<>>
    ELSE IF Has(d, Head(order))
         THEN <<Head(order)>> \o Present(d, Tail(order))
         ELSE Present(d, Tail(order))

FlatToJson(d, order) ==
    LET present == Present(d, order)
    IN [i \in 1..Len(present) |-> <<present[i], d[present[i]]>>]

BecauseToJson(d) ==
    LET present == Present(d, BecauseKeyOrder)
    IN [i \in 1..Len(present) |->
           <<present[i],
             IF present[i] = "content"
             THEN FlatToJson(d[present[i]], ReasonKeyOrder)
             ELSE d[present[i]]>>]

UnsignedToJson(d) ==
    LET present == Present(d, UnsignedKeyOrder)
    IN [i \in 1..Len(present) |->
           <<present[i],
             IF present[i] = "redacted_because"
             THEN BecauseToJson(d[present[i]])
             ELSE d[present[i]]>>]

to_json(d) ==
    LET present == Present(d, EventKeyOrder)
    IN [i \in 1..Len(present) |->
           <<present[i],
             CASE present[i] = "content" ->
                    FlatToJson(d[present[i]], ContentKeyOrder)
               [] present[i] = "unsigned" -> UnsignedToJson(d[present[i]])
               [] OTHER -> d[present[i]]>>]

(* The member of s under key k. *)
Member(s, k) == s[CHOOSE j \in DOMAIN s : s[j][1] = k][2]

MemberKeys(s) == {s[i][1] : i \in DOMAIN s}

FlatFromJson(s) == [k \in MemberKeys(s) |-> Member(s, k)]

BecauseFromJson(s) ==
    [k \in MemberKeys(s) |->
        IF k = "content" THEN FlatFromJson(Member(s, k)) ELSE Member(s, k)]

UnsignedFromJson(s) ==
    [k \in MemberKeys(s) |->
        IF k = "redacted_because"
        THEN BecauseFromJson(Member(s, k)) ELSE Member(s, k)]

from_json(s) ==
    [k \in MemberKeys(s) |->
        CASE k = "content" -> FlatFromJson(Member(s, k))
          [] k = "unsigned" -> UnsignedFromJson(Member(s, k))
          [] OTHER -> Member(s, k)]

---------------------------------------------------------------------------
(* The event decoders *)

BadEvent(event_id, sender, server_ts, event_type, source) ==
    [class |-> "BadEvent", event_id |-> event_id, sender |-> sender,
     server_timestamp |-> server_ts, type |-> event_type, source |-> source]

(* Faulty variant: serializes the content instead of the whole payload. *)
BadEvent_from_dict_content_source(parsed_dict) ==
    LET missing == FirstMissing(parsed_dict,
                       <<"event_id", "sender", "origin_server_ts", "type">>)
    IN IF missing # None THEN Raise("KeyError", missing)
       ELSE Return(BadEvent(parsed_dict["event_id"],
                            parsed_dict["sender"],
                            parsed_dict["origin_server_ts"],
                            parsed_dict["type"],
                            FlatToJson(parsed_dict["content"], ContentKeyOrder)))

BadEvent_from_dict(parsed_dict) ==
    LET missing == FirstMissing(parsed_dict,
                       <<"event_id", "sender", "origin_server_ts", "type">>)
    IN IF missing # None THEN Raise("KeyError", missing)
       ELSE Return(BadEvent(parsed_dict["event_id"],
                            parsed_dict["sender"],
                            parsed_dict["origin_server_ts"],
                            parsed_dict["type"],
                            to_json(parsed_dict)))

RedactedEvent(event_id, sender, server_ts, event_type, redacter, reason) ==
    [class |-> "RedactedEvent", event_id |-> event_id, sender |-> sender,
     server_timestamp |-> server_ts, event_type |-> event_type,
     redacter |-> redacter, reason |-> reason]

RedactedEvent_from_dict(parsed_dict) ==
    IF ~Schemas_redacted_event(parsed_dict)
    THEN BadEvent_from_dict(parsed_dict)
    ELSE LET because == parsed_dict["unsigned"]["redacted_because"]
             redacter == because["sender"]
             content_dict == because["content"]
             reason == IF Has(content_dict, "reason")
                       THEN content_dict["reason"] ELSE None
         IN Return(RedactedEvent(parsed_dict["event_id"],
                                 parsed_dict["sender"],
                                 parsed_dict["origin_server_ts"],
                                 parsed_dict["type"],
                                 redacter,
                                 reason))

RoomMessageText(event_id, sender, server_ts, body, formatted_body, body_format) ==
    [class |-> "RoomMessageText", event_id |-> event_id, sender |-> sender,
     server_timestamp |-> server_ts, body |-> body,
     formatted_body |-> formatted_body, format |-> body_format]

(* Faulty variant: reads format from formatted_body. *)
RoomMessageText_from_dict_swapped(parsed_dict) ==
    IF ~Schemas_room_message_text(parsed_dict)
    THEN BadEvent_from_dict(parsed_dict)
    ELSE LET content == parsed_dict["content"]
             formatted_body == IF Has(content, "formatted_body")
                               THEN content["formatted_body"] ELSE None
         IN Return(RoomMessageText(parsed_dict["event_id"],
                                   parsed_dict["sender"],
                                   parsed_dict["origin_server_ts"],
                                   content["body"],
                                   formatted_body,
                                   formatted_body))

RoomMessageText_from_dict(parsed_dict) ==
    IF ~Schemas_room_message_text(parsed_dict)
    THEN BadEvent_from_dict(parsed_dict)
    ELSE LET content == parsed_dict["content"]
             body == content["body"]
             formatted_body == IF Has(content, "formatted_body")
                               THEN content["formatted_body"] ELSE None
             body_format == IF Has(content, "format")
                            THEN content["format"] ELSE None
             missing == FirstMissing(parsed_dict,
                            <<"event_id", "sender", "origin_server_ts">>)
         IN IF missing # None THEN Raise("KeyError", missing)
            ELSE Return(RoomMessageText(parsed_dict["event_id"],
                                        parsed_dict["sender"],
                                        parsed_dict["origin_server_ts"],
                                        body,
                                        formatted_body,
                                        body_format))

RoomMessage_from_dict(parsed_dict) ==
    IF ~Schemas_room_message(parsed_dict)
    THEN BadEvent_from_dict(parsed_dict)
    ELSE LET content_dict == parsed_dict["content"]
         IN IF content_dict["msgtype"] = "m.text"
            THEN RoomMessageText_from_dict(parsed_dict)
            ELSE Return(NoneObject)

---------------------------------------------------------------------------
(* SyncRepsponse._get_room_events *)

(* events.append(e), e the outcome of a from_dict call: an exception of the
   call leaves the loop body before the append. *)
events_append(events, e) ==
    IF e.raised THEN e ELSE Return(Append(events, e.value))

(* Faulty variant: no try statement, the ValidationError of the room-event
   schema leaves the loop. *)
room_events_body_no_try(events, event_dict) ==
    IF ~Schemas_room_event(event_dict)
    THEN Raise("ValidationError", "room_event")
    ELSE IF Has(event_dict, "unsigned")
            /\ Has(event_dict["unsigned"], "redacted_because")
    THEN events_append(events, RedactedEvent_from_dict(event_dict))
    ELSE IF event_dict["type"] = "m.room.message"
    THEN events_append(events, RoomMessage_from_dict(event_dict))
    ELSE Return(events)

(* Faulty variant: dispatches on the type before it looks for a redaction. *)
room_events_body_type_first(events, event_dict) ==
    IF ~Schemas_room_event(event_dict)
    THEN Return(events)
    ELSE IF event_dict["type"] = "m.room.message"
    THEN events_append(events, RoomMessage_from_dict(event_dict))
    ELSE IF Has(event_dict, "unsigned")
            /\ Has(event_dict["unsigned"], "redacted_because")
    THEN events_append(events, RedactedEvent_from_dict(event_dict))
    ELSE Return(events)

(* One pass of the loop body for event_dict: the events list afterwards, or
   the exception that leaves the try statement. *)
room_events_body(events, event_dict) ==
    IF ~Schemas_room_event(event_dict)
    THEN Return(events)
    ELSE IF Has(event_dict, "unsigned")
            /\ Has(event_dict["unsigned"], "redacted_because")
    THEN events_append(events, RedactedEvent_from_dict(event_dict))
    ELSE IF event_dict["type"] = "m.room.message"
    THEN events_append(events, RoomMessage_from_dict(event_dict))
    ELSE Return(events)

RECURSIVE room_events_loop(_, _, _)

(* After the pass for parsed_dict[i] ended in r: the next pass, or the
   exception leaves the function. *)
room_events_next(parsed_dict, i, r) ==
    IF r.raised THEN r ELSE room_events_loop(parsed_dict, i + 1, r.value)

room_events_loop(parsed_dict, i, events) ==
    IF i > Len(parsed_dict) THEN Return(events)
    ELSE room_events_next(parsed_dict, i,
                          room_events_body(events, parsed_dict[i]))

_get_room_events(parsed_dict) == room_events_loop(parsed_dict, 1, <<>>)

---------------------------------------------------------------------------
(* Raw events *)

EventId(i) == "$" \o ToString(i)

BaseKeys == {"event_id", "sender", "origin_server_ts", "type", "content"}

Types == {"m.room.message", "m.room.member"}

Msgtypes == {"m.text", "m.notice"}

RawContent(msgtype) ==
    [msgtype |-> msgtype, body |-> "hi", formatted_body |-> "<b>hi</b>",
     format |-> "org.matrix.custom.html"]

Contents ==
    { Restrict(RawContent(m), K) :
        m \in Msgtypes,
        K \in SUBSET {"msgtype", "body", "formatted_body", "format"} }

Becauses ==
    { Restrict([sender |-> "@mod:x", content |-> c], K) :
        c \in {EmptyDict, [reason |-> "spam"]},
        K \in SUBSET {"sender", "content"} }

Unsigneds ==
    {[age |-> 5]} \cup {[age |-> 5, redacted_because |-> b] : b \in Becauses}

RawEvent(id, type, content, unsigned) ==
    [event_id |-> id, sender |-> "@a:x", origin_server_ts |-> 100,
     type |-> type, content |-> content, unsigned |-> unsigned]

(* Every event shape: any content, any unsigned, at most one base key
   missing. *)
RawEvents(id) ==
    { Restrict(RawEvent(id, t, c, u), K) :
        t \in Types, c \in Contents, u \in Unsigneds,
        K \in {BaseKeys, BaseKeys \cup {"unsigned"}}
              \cup {(BaseKeys \ {k}) \cup {"unsigned"} : k \in BaseKeys} }

Kinds == {"text", "html", "notice", "member", "nosender", "redacted", "nomsgtype"}

KindEvent(kind, id) ==
    LET text == Restrict(RawContent("m.text"), {"msgtype", "body"})
        ev(t, c, u) == RawEvent(id, t, c, u)
    IN CASE kind = "text" ->
              Restrict(ev("m.room.message", text, EmptyDict), BaseKeys)
         [] kind = "html" ->
              Restrict(ev("m.room.message", RawContent("m.text"), EmptyDict), BaseKeys)
         [] kind = "notice" ->
              Restrict(ev("m.room.message",
                          Restrict(RawContent("m.notice"), {"msgtype", "body"}),
                          EmptyDict), BaseKeys)
         [] kind = "member" ->
              Restrict(ev("m.room.member", EmptyDict, EmptyDict), BaseKeys)
         [] kind = "nosender" ->
              Restrict(ev("m.room.message", text, EmptyDict), BaseKeys \ {"sender"})
         [] kind = "redacted" ->
              ev("m.room.message", EmptyDict,
                 [age |-> 5,
                  redacted_because |->
                      [sender |-> "@mod:x", content |-> [reason |-> "spam"]]])
         [] kind = "nomsgtype" ->
              Restrict(ev("m.room.message", [body |-> "hi"], EmptyDict), BaseKeys)

(* The raw event arrays: the i-th event carries the i-th event id. *)
EventArrays(kinds, n) ==
    { [i \in 1..n |-> KindEvent(ks[i], EventId(i))] : ks \in [1..n -> kinds] }

RawTimelines ==
    {<<e>> : e \in RawEvents(EventId(1))}
    \cup UNION {EventArrays(Kinds, n) : n \in 0..MaxEvents}

---------------------------------------------------------------------------
(* SyncRepsponse._get_timeline, _get_room_info *)

Timeline(events, limited, prev_batch) ==
    [class |-> "Timeline", events |-> events, limited |-> limited,
     prev_batch |-> prev_batch]

JoindedInfo(timeline, state) ==
    [class |-> "JoinedInfo", timeline |-> timeline, state |-> state]

RoomInfo(invite, join, leave) ==
    [class |-> "RoomInfo", invite |-> invite, join |-> join, leave |-> leave]

(* The Timeline built from the outcome of _get_room_events. *)
timeline_of(parsed_dict, events) ==
    IF events.raised THEN events
    ELSE Return(Timeline(events.value,
                         parsed_dict["limited"],
                         parsed_dict["prev_batch"]))

_get_timeline(parsed_dict) ==
    IF ~Schemas_room_timeline(parsed_dict)
    THEN Raise("ValidationError", "room_timeline")
    ELSE timeline_of(parsed_dict, _get_room_events(parsed_dict["events"]))

(* The keys of the object under "join", given as its items. *)
Keys(items) == {items[i][1] : i \in DOMAIN items}

RECURSIVE room_info_loop(_, _, _)

(* joined_rooms[room_id] = JoindedInfo(timeline, state), timeline the outcome
   of _get_timeline, and the next room. *)
room_info_next(items, i, joined_rooms, timeline) ==
    IF timeline.raised THEN timeline
    ELSE room_info_loop(items, i + 1,
                        [joined_rooms EXCEPT
                            ![items[i][1]] = JoindedInfo(timeline.value, <<>>)])

room_info_loop(items, i, joined_rooms) ==
    IF i > Len(items) THEN Return(joined_rooms)
    ELSE IF ~Has(items[i][2], "timeline") THEN Raise("KeyError", "timeline")
    ELSE room_info_next(items, i, joined_rooms,
                        _get_timeline(items[i][2]["timeline"]))

(* Faulty variant: hands the joined rooms over as the left rooms too. *)
room_info_of_leave_too(joined) ==
    IF joined.raised THEN joined
    ELSE Return(RoomInfo(EmptyDict, joined.value, joined.value))

(* RoomInfo(invited_rooms, joined_rooms, left_rooms), joined the outcome of
   the loop over the joined rooms. *)
room_info_of(joined) ==
    IF joined.raised THEN joined
    ELSE Return(RoomInfo(EmptyDict, joined.value, EmptyDict))

_get_room_info(parsed_dict) ==
    IF ~Has(parsed_dict, "join") THEN Raise("KeyError", "join")
    ELSE room_info_of(
             room_info_loop(parsed_dict["join"], 1,
                            [key \in Keys(parsed_dict["join"]) |-> NoneObject]))

---------------------------------------------------------------------------
(* The responses *)

ErrorResponse(message, code) ==
    [class |-> "ErrorResponse", message |-> message, code |-> code]

(* Faulty variant: message and code swapped. *)
ErrorResponse_from_dict_swapped(parsed_dict) ==
    IF ~Schemas_error(parsed_dict)
    THEN Return(ErrorResponse("Unknown error", ""))
    ELSE Return(ErrorResponse(parsed_dict["errcode"], parsed_dict["error"]))

ErrorResponse_from_dict(parsed_dict) ==
    IF ~Schemas_error(parsed_dict)
    THEN Return(ErrorResponse("Unknown error", ""))
    ELSE Return(ErrorResponse(parsed_dict["error"], parsed_dict["errcode"]))

LoginResponse(user_id, device_id, access_token) ==
    [class |-> "LoginResponse", user_id |-> user_id, device_id |-> device_id,
     access_token |-> access_token]

LoginResponse_from_dict(parsed_dict) ==
    IF ~Schemas_login(parsed_dict)
    THEN ErrorResponse_from_dict(parsed_dict)
    ELSE Return(LoginResponse(parsed_dict["user_id"],
                              parsed_dict["device_id"],
                              parsed_dict["access_token"]))

SyncRepsponse(next_batch, rooms, partial) ==
    [class |-> "SyncRepsponse", next_batch |-> next_batch, rooms |-> rooms,
     partial |-> partial]

(* The end of from_dict, rooms the outcome of _get_room_info: the except
   clause catches SchemaError and ValidationError and nothing else. *)
sync_of(parsed_dict, rooms, partial) ==
    IF rooms.raised
    THEN IF rooms.exc.class \in {"SchemaError", "ValidationError"}
         THEN ErrorResponse_from_dict(parsed_dict)
         ELSE rooms
    ELSE IF ~Has(parsed_dict, "next_batch")
         THEN Raise("KeyError", "next_batch")
         ELSE Return(SyncRepsponse(parsed_dict["next_batch"],
                                   rooms.value, partial))

SyncRepsponse_from_dict(parsed_dict) ==
    IF ~Schemas_sync(parsed_dict)
    THEN ErrorResponse_from_dict(parsed_dict)
    ELSE IF ~Has(parsed_dict, "rooms") THEN Raise("KeyError", "rooms")
    ELSE sync_of(parsed_dict, _get_room_info(parsed_dict["rooms"]), FALSE)

---------------------------------------------------------------------------
(* nio.event_builders.direct_messages *)

(* Faulty variant: folds the fields of a key request into the content. *)
as_dict_folds_fields(self) ==
    Return([messages |->
               (self.recipient :>
                   (self.recipient_device :>
                       IF self.class = "RoomKeyRequestMessage"
                       THEN [request_id |-> self.request_id,
                             session_id |-> self.session_id,
                             room_id |-> self.room_id,
                             algorithm |-> self.algorithm] @@ self.content
                       ELSE self.content))])

as_dict(self) ==
    Return([messages |->
               (self.recipient :> (self.recipient_device :> self.content))])

---------------------------------------------------------------------------
(* Raw sync, login and error payloads; to-device messages *)

(* Longest raw event array of a room of a sync payload. *)
MaxRoomEvents == 2

RoomIds == {"!a:x", "!b:x"}

SyncKinds == {"text", "notice", "nosender"}

RawRoomTimelines ==
    { [events |-> e, limited |-> FALSE, prev_batch |-> "p1"] :
        e \in UNION {EventArrays(SyncKinds, n) : n \in 0..MaxRoomEvents} }
    \cup {[events |-> <<>>, limited |-> FALSE]}

RawRooms == {EmptyDict} \cup {[timeline |-> t] : t \in RawRoomTimelines}

(* The items of a "join" object: zero, one or two rooms, in either order. *)
RawJoins ==
    {<<>>}
    \cup {<<<<id, r>>>> : id \in RoomIds, r \in RawRooms}
    \cup UNION { { <<<<id1, r1>>, <<id2, r2>>>> :
                     id2 \in RoomIds \ {id1}, r1 \in RawRooms, r2 \in RawRooms } :
                   id1 \in RoomIds }

RawRoomsContainers ==
    { Restrict([join |-> j, invite |-> EmptyDict, leave |-> EmptyDict], K) :
        j \in RawJoins, K \in SUBSET {"join", "invite", "leave"} }

RawSyncs ==
    { Restrict([next_batch |-> "s1", rooms |-> r,
                error |-> "Forbidden", errcode |-> "M_FORBIDDEN"], K) :
        r \in RawRoomsContainers,
        K \in SUBSET {"next_batch", "rooms", "error", "errcode"} }

RawLogins ==
    { Restrict([user_id |-> "@a:x", device_id |-> "DEV1", access_token |-> "tok",
                error |-> e, errcode |-> c], K) :
        e \in {"Forbidden", "Unknown error"}, c \in {"M_FORBIDDEN", ""},
        K \in SUBSET {"user_id", "device_id", "access_token", "error", "errcode"} }

MessageContents ==
    {EmptyDict, [action |-> "request"], [action |-> "request", request_id |-> "r0"]}

ToDeviceMessages ==
    { [class |-> c, type |-> t, recipient |-> r, recipient_device |-> d,
       content |-> k] :
        c \in {"ToDeviceMessage", "DummyMessage"},
        t \in {"m.dummy", "m.room_key_request"},
        r \in {"@a:x", "@b:x"}, d \in {"DEV1", "DEV2"}, k \in MessageContents }
    \cup
    { [class |-> "RoomKeyRequestMessage", type |-> t, recipient |-> r,
       recipient_device |-> d, content |-> k, request_id |-> q,
       session_id |-> s, room_id |-> m, algorithm |-> a] :
        t \in {"m.dummy", "m.room_key_request"},
        r \in {"@a:x", "@b:x"}, d \in {"DEV1", "DEV2"}, k \in MessageContents,
        q \in {"r1", "r2"}, s \in {"s1", "s2"}, m \in {"!a:x", "!b:x"},
        a \in {"m.megolm.v1.aes-sha2", "m.olm.v1"} }

---------------------------------------------------------------------------
(* The calls: one entry point is called once with one argument. *)

Pending == Return(NoneObject)

Init ==
    /\ pc = "call"
    /\ ret = Pending
    /\ \/ fn = "_get_room_events" /\ arg \in RawTimelines
       \/ fn = "SyncRepsponse.from_dict" /\ arg \in RawSyncs
       \/ fn = "LoginResponse.from_dict" /\ arg \in RawLogins
       \/ fn = "ErrorResponse.from_dict" /\ arg \in RawLogins
       \/ fn = "as_dict" /\ arg \in ToDeviceMessages

Call_get_room_events ==
    /\ pc = "call"
    /\ fn = "_get_room_events"
    /\ ret' = _get_room_events(arg)
    /\ pc' = "return"
    /\ UNCHANGED <<fn, arg>>

CallSyncRepsponse_from_dict ==
    /\ pc = "call"
    /\ fn = "SyncRepsponse.from_dict"
    /\ ret' = SyncRepsponse_from_dict(arg)
    /\ pc' = "return"
    /\ UNCHANGED <<fn, arg>>

CallLoginResponse_from_dict ==
    /\ pc = "call"
    /\ fn = "LoginResponse.from_dict"
    /\ ret' = LoginResponse_from_dict(arg)
    /\ pc' = "return"
    /\ UNCHANGED <<fn, arg>>

CallErrorResponse_from_dict ==
    /\ pc = "call"
    /\ fn = "ErrorResponse.from_dict"
    /\ ret' = ErrorResponse_from_dict(arg)
    /\ pc' = "return"
    /\ UNCHANGED <<fn, arg>>

Call_as_dict ==
    /\ pc = "call"
    /\ fn = "as_dict"
    /\ ret' = as_dict(arg)
    /\ pc' = "return"
    /\ UNCHANGED <<fn, arg>>

Next ==
    \/ Call_get_room_events
    \/ CallSyncRepsponse_from_dict
    \/ CallLoginResponse_from_dict
    \/ CallErrorResponse_from_dict
    \/ Call_as_dict

Spec == Init /\ [][Next]_vars

---------------------------------------------------------------------------
(* What the claims speak of *)

Redacted(d) == Has(d, "unsigned") /\ Has(d["unsigned"], "redacted_because")

(* Fails the generic room-event schema. *)
Malformed(d) == ~Schemas_room_event(d)

(* A non-redacted text message that passes every schema on its way. *)
WellFormedText(d) ==
    /\ Schemas_room_event(d)
    /\ ~Redacted(d)
    /\ d["type"] = "m.room.message"
    /\ Schemas_room_message_text(d)
    /\ d["content"]["msgtype"] = "m.text"

(* A non-redacted message of a msgtype other than m.text. *)
OtherMsgtype(d) ==
    /\ Schemas_room_event(d)
    /\ ~Redacted(d)
    /\ d["type"] = "m.room.message"
    /\ Schemas_room_message(d)
    /\ d["content"]["msgtype"] # "m.text"

EventClasses == {"BadEvent", "RedactedEvent", "RoomMessageText"}

(* Where the decoded events hold an Event variant with event id id. *)
Decoded(events, id) ==
    {j \in DOMAIN events :
        events[j]["class"] \in EventClasses /\ events[j]["event_id"] = id}

EventsReturned == pc = "return" /\ fn = "_get_room_events"

OrNone(d, k) == IF Has(d, k) THEN d[k] ELSE None

---------------------------------------------------------------------------
(* C1 *)

C1_Case ==
    /\ EventsReturned
    /\ Cardinality({i \in DOMAIN arg : Malformed(arg[i])}) = 1
    /\ \A i \in DOMAIN arg : Malformed(arg[i]) \/ WellFormedText(arg[i])

MalformedAt == CHOOSE i \in DOMAIN arg : Malformed(arg[i])

(* C1 as stated: a raw timeline of N well-formed text messages and one
   malformed event decodes to N + 1 elements in the original order, a
   BadEvent standing where the malformed event stood. *)
C1_BadEventKept ==
    C1_Case =>
        /\ ~ret.raised
        /\ Len(ret.value) = Len(arg)
        /\ \A i \in DOMAIN arg :
              IF Malformed(arg[i])
              THEN ret.value[i]["class"] = "BadEvent"
              ELSE /\ ret.value[i]["class"] = "RoomMessageText"
                   /\ ret.value[i]["event_id"] = arg[i]["event_id"]

(* C1 amended: a raw timeline of N well-formed text messages and one
   malformed event decodes to exactly N elements, the RoomMessageText of the
   N well-formed events in the original order; the malformed event is
   dropped and no BadEvent stands for it. *)
C1_MalformedDropped ==
    C1_Case =>
        /\ ~ret.raised
        /\ Len(ret.value) = Len(arg) - 1
        /\ \A j \in DOMAIN ret.value :
              LET i == IF j < MalformedAt THEN j ELSE j + 1
              IN /\ ret.value[j]["class"] = "RoomMessageText"
                 /\ ret.value[j]["event_id"] = arg[i]["event_id"]
                 /\ ret.value[j]["body"] = arg[i]["content"]["body"]

C1_Witness ==
    /\ C1_Case
    /\ Len(arg) = 3
    /\ MalformedAt = 2
    /\ Len(ret.value) = 2

---------------------------------------------------------------------------
(* C3 *)

(* C3 as stated: a message of a msgtype other than m.text adds no element
   to the decoded events: every element is an Event variant, and the
   decoded events are shorter than the raw array by one for each such
   message at least. *)
C3_OtherMsgtypeAddsNothing ==
    EventsReturned =>
        /\ ~ret.raised
        /\ \A j \in DOMAIN ret.value : ret.value[j]["class"] \in EventClasses
        /\ Len(ret.value) + Cardinality({i \in DOMAIN arg : OtherMsgtype(arg[i])})
               <= Len(arg)

---------------------------------------------------------------------------
(* C6 *)

(* C6 as stated: an event payload that lacks sender is decoded, without an
   exception, to a BadEvent whose source is the serialization of the whole
   payload and whose type is the payload's type. *)
C6_NoSenderIsBadEvent ==
    EventsReturned =>
        /\ ~ret.raised
        /\ \A i \in DOMAIN arg :
              (~Has(arg[i], "sender") /\ Has(arg[i], "event_id")) =>
                  \E j \in Decoded(ret.value, arg[i]["event_id"]) :
                      /\ ret.value[j]["class"] = "BadEvent"
                      /\ ret.value[j]["source"] = to_json(arg[i])
                      /\ ret.value[j]["type"] = arg[i]["type"]

(* C6 amended: an event payload that lacks sender raises no exception and
   is dropped: no element of the decoded events, BadEvent or other, stands
   for it.  Every BadEvent that is decoded stands for a payload that passes
   the room-event schema (so holds sender) and fails a later one; its source
   is the serialization of that whole payload, from which the payload
   parses back, and its type is the payload's type. *)
C6_NoSenderDropped ==
    EventsReturned =>
        /\ ~ret.raised
        /\ \A i \in DOMAIN arg :
              (~Has(arg[i], "sender") /\ Has(arg[i], "event_id")) =>
                  Decoded(ret.value, arg[i]["event_id"]) = {}
        /\ \A j \in DOMAIN ret.value :
              ret.value[j]["class"] = "BadEvent" =>
                  \E i \in DOMAIN arg :
                      /\ Schemas_room_event(arg[i])
                      /\ ret.value[j]["event_id"] = arg[i]["event_id"]
                      /\ ret.value[j]["source"] = to_json(arg[i])
                      /\ from_json(ret.value[j]["source"]) = arg[i]
                      /\ ret.value[j]["type"] = arg[i]["type"]

C6_Witness ==
    /\ EventsReturned
    /\ Len(arg) = 2
    /\ ~Has(arg[1], "sender")
    /\ ~ret.raised
    /\ Len(ret.value) = 1
    /\ ret.value[1]["class"] = "BadEvent"
    /\ ret.value[1]["event_id"] = arg[2]["event_id"]

---------------------------------------------------------------------------
(* C8 *)

(* C8: a non-redacted m.room.message event with msgtype m.text that passes
   the room-event, room-message and text-message schemas decodes to one
   RoomMessageText with the payload's event_id, sender, origin_server_ts and
   content.body, and with formatted_body and format the content's values or
   None; such an event that fails the room-message schema, or with msgtype
   m.text the text-message schema, decodes to one BadEvent. *)
C8_TextMessage ==
    EventsReturned =>
        /\ ~ret.raised
        /\ \A i \in DOMAIN arg :
              (/\ Schemas_room_event(arg[i])
               /\ ~Redacted(arg[i])
               /\ arg[i]["type"] = "m.room.message") =>
                  LET d == arg[i]
                      at == Decoded(ret.value, d["event_id"])
                  IN IF WellFormedText(d)
                     THEN /\ Cardinality(at) = 1
                          /\ \A j \in at :
                                ret.value[j] =
                                    [class |-> "RoomMessageText",
                                     event_id |-> d["event_id"],
                                     sender |-> d["sender"],
                                     server_timestamp |-> d["origin_server_ts"],
                                     body |-> d["content"]["body"],
                                     formatted_body |->
                                         OrNone(d["content"], "formatted_body"),
                                     format |-> OrNone(d["content"], "format")]
                     ELSE IF OtherMsgtype(d) THEN TRUE
                     ELSE /\ Cardinality(at) = 1
                          /\ \A j \in at : ret.value[j]["class"] = "BadEvent"

C8_Witness ==
    /\ EventsReturned
    /\ Len(arg) = 1
    /\ WellFormedText(arg[1])
    /\ Has(arg[1]["content"], "format")
    /\ ~Has(arg[1]["content"], "formatted_body")
    /\ ~ret.raised
    /\ Len(ret.value) = 1
    /\ ret.value[1]["class"] = "RoomMessageText"
    /\ ret.value[1]["formatted_body"] = None
    /\ ret.value[1]["format"] = "org.matrix.custom.html"

---------------------------------------------------------------------------
(* C9 *)

(* C9: every event that passes the room-event schema and holds
   unsigned.redacted_because decodes to exactly one element, whatever its
   type and msgtype: a RedactedEvent, redacter redacted_because.sender and
   reason redacted_because.content.reason or None, when it passes the
   redacted-event schema, a BadEvent when it does not; never a
   RoomMessageText, and never dropped. *)
C9_RedactionFirst ==
    EventsReturned =>
        /\ ~ret.raised
        /\ \A i \in DOMAIN arg :
              (Schemas_room_event(arg[i]) /\ Redacted(arg[i])) =>
                  LET d == arg[i]
                      at == Decoded(ret.value, d["event_id"])
                      because == d["unsigned"]["redacted_because"]
                  IN /\ Cardinality(at) = 1
                     /\ \A j \in at :
                           IF Schemas_redacted_event(d)
                           THEN ret.value[j] =
                                    [class |-> "RedactedEvent",
                                     event_id |-> d["event_id"],
                                     sender |-> d["sender"],
                                     server_timestamp |-> d["origin_server_ts"],
                                     event_type |-> d["type"],
                                     redacter |-> because["sender"],
                                     reason |-> OrNone(because["content"], "reason")]
                           ELSE ret.value[j]["class"] = "BadEvent"

C9_Witness ==
    /\ EventsReturned
    /\ Len(arg) = 1
    /\ Schemas_redacted_event(arg[1])
    /\ WellFormedText([k \in BaseKeys |-> arg[1][k]])
    /\ ~Has(arg[1]["unsigned"]["redacted_because"]["content"], "reason")
    /\ ~ret.raised
    /\ Len(ret.value) = 1
    /\ ret.value[1]["class"] = "RedactedEvent"
    /\ ret.value[1]["reason"] = None

---------------------------------------------------------------------------
(* C2, C4, C10 *)

SyncReturned == pc = "return" /\ fn = "SyncRepsponse.from_dict"

(* C2 as stated: from_dict is total: whatever the payload, it returns a
   SyncRepsponse or an ErrorResponse, and no exception leaves it. *)
C2_FromDictTotal ==
    SyncReturned =>
        /\ ~ret.raised
        /\ ret.value["class"] \in {"SyncRepsponse", "ErrorResponse"}

(* The rooms container is malformed: join is missing, or the timeline of a
   joined room fails the room-timeline schema. *)
MalformedRooms(rooms) ==
    \/ ~Has(rooms, "join")
    \/ \E i \in DOMAIN rooms["join"] :
          /\ Has(rooms["join"][i][2], "timeline")
          /\ ~Schemas_room_timeline(rooms["join"][i][2]["timeline"])

(* C4 as stated: a payload whose rooms container is malformed yields an
   ErrorResponse for the whole call, never a SyncRepsponse of the rooms that
   decoded. *)
C4_MalformedRoomsIsError ==
    (SyncReturned /\ Has(arg, "rooms") /\ MalformedRooms(arg["rooms"])) =>
        /\ ~ret.raised
        /\ ret.value["class"] = "ErrorResponse"

SyncDecoded ==
    /\ SyncReturned
    /\ ~ret.raised
    /\ ret.value["class"] = "SyncRepsponse"

(* The raw room of room id id among the items of a join object. *)
RawRoom(items, id) == items[CHOOSE i \in DOMAIN items : items[i][1] = id][2]

(* C10: in every SyncRepsponse that from_dict returns, invite and leave are
   empty, join has exactly the room ids of the payload's rooms.join, and
   every join value is a JoinedInfo with an empty state list and a Timeline
   decoded from that room's raw timeline; so no room id is in two of the
   three mappings. *)
C10_RoomPartition ==
    SyncDecoded =>
        LET rooms == ret.value["rooms"]
            items == arg["rooms"]["join"]
        IN /\ DOMAIN rooms["invite"] = {}
           /\ DOMAIN rooms["leave"] = {}
           /\ DOMAIN rooms["join"] = Keys(items)
           /\ \A id \in DOMAIN rooms["join"] :
                 LET info == rooms["join"][id]
                     raw == RawRoom(items, id)["timeline"]
                 IN /\ info["class"] = "JoinedInfo"
                    /\ info["state"] = <<>>
                    /\ info["timeline"]["class"] = "Timeline"
                    /\ info["timeline"]["limited"] = raw["limited"]
                    /\ info["timeline"]["prev_batch"] = raw["prev_batch"]
                    /\ Len(info["timeline"]["events"]) <= Len(raw["events"])
           /\ \A id \in RoomIds :
                 Cardinality({m \in {"invite", "join", "leave"} :
                                 id \in DOMAIN rooms[m]}) <= 1

C10_Witness ==
    /\ SyncDecoded
    /\ DOMAIN ret.value["rooms"]["join"] = RoomIds
    /\ \E id \in RoomIds :
          Len(ret.value["rooms"]["join"][id]["timeline"]["events"]) = 2

---------------------------------------------------------------------------
(* C7 *)

(* The ErrorResponse the error-extraction rule gives for payload d. *)
ErrorOf(d) ==
    IF Schemas_error(d)
    THEN [class |-> "ErrorResponse", message |-> d["error"], code |-> d["errcode"]]
    ELSE [class |-> "ErrorResponse", message |-> "Unknown error", code |-> ""]

(* C7: LoginResponse.from_dict returns the LoginResponse of the payload's
   user_id, device_id and access_token exactly when the payload passes the
   login schema, and otherwise the ErrorResponse of the payload's error and
   errcode when it passes the error schema, else of "Unknown error" and the
   empty code; an ErrorResponse of SyncRepsponse.from_dict and of
   ErrorResponse.from_dict follows the same rule. *)
C7_LoginErrorChain ==
    /\ (pc = "return" /\ fn = "LoginResponse.from_dict") =>
          /\ ~ret.raised
          /\ ret.value =
                IF Schemas_login(arg)
                THEN [class |-> "LoginResponse", user_id |-> arg["user_id"],
                      device_id |-> arg["device_id"],
                      access_token |-> arg["access_token"]]
                ELSE ErrorOf(arg)
    /\ (pc = "return" /\ fn = "ErrorResponse.from_dict") =>
          (~ret.raised /\ ret.value = ErrorOf(arg))
    /\ (SyncReturned /\ ~ret.raised /\ ret.value["class"] = "ErrorResponse") =>
          ret.value = ErrorOf(arg)

C7_Witness ==
    /\ pc = "return"
    /\ fn = "LoginResponse.from_dict"
    /\ ~Schemas_login(arg)
    /\ Schemas_error(arg)
    /\ ret.value = [class |-> "ErrorResponse", message |-> "Forbidden",
                    code |-> "M_FORBIDDEN"]

---------------------------------------------------------------------------
(* C5 *)

(* C5: the rendering of a to-device message of any class has the one key
   "messages", under it the one key recipient, under that the one key
   recipient_device, and there the content as it is; it is the rendering of
   every message with that recipient, device and content, whatever its
   class, type, request_id, session_id, room_id and algorithm. *)
C5_Envelope ==
    (pc = "return" /\ fn = "as_dict") =>
        /\ ~ret.raised
        /\ DOMAIN ret.value = {"messages"}
        /\ DOMAIN ret.value["messages"] = {arg["recipient"]}
        /\ DOMAIN ret.value["messages"][arg["recipient"]]
               = {arg["recipient_device"]}
        /\ ret.value["messages"][arg["recipient"]][arg["recipient_device"]]
               = arg["content"]
        /\ \A m \in ToDeviceMessages :
              (/\ m["recipient"] = arg["recipient"]
               /\ m["recipient_device"] = arg["recipient_device"]
               /\ m["content"] = arg["content"]) => as_dict(m) = ret

C5_Witness ==
    /\ pc = "return"
    /\ fn = "as_dict"
    /\ arg["class"] = "RoomKeyRequestMessage"
    /\ arg["request_id"] = "r1"
    /\ ~Has(arg["content"], "request_id")
    /\ ret.value = [messages |-> [k \in {"@b:x"} |-> [d \in {"DEV1"} |->
                                     [action |-> "request"]]]]

=============================================================================
